---------------------------- MODULE Spec2Model ----------------------------
(* googler_api: the Search Session (GoogleSearchClient), its Connection     *)
(* Manager (ManagedConnection), the URL resolver wrapper (build_url) and    *)
(* the result model.  The fetch engine (GoogleConnection), the resolved URL *)
(* (GoogleUrl) and the result parser (GoogleParser) live in the googler     *)
(* executable, which googler_api/_compat.py loads at run time; they are     *)
(* modelled from the specification (sections 4.1, 4.2 and 7).               *)
EXTENDS Integers, Sequences, FiniteSets, TLC

(***************************************************************************)
(* Bounds of the model.                                                    *)
(***************************************************************************)
MaxStart == 2     \* search(start=...) is drawn from 0..MaxStart
MaxNum == 2       \* search(num=...) is drawn from 0..MaxNum
MaxOffset == 3    \* next_page is explored while the URL offset stays <= MaxOffset
MaxPage == 2      \* next_page is explored while the page counter stays < MaxPage
MaxResults == 2   \* a SearchResponse is built from at most MaxResults results

(***************************************************************************)
(* Values.                                                                 *)
(***************************************************************************)
None == "None"                       \* Python's None, where a text is optional
NoHost == ""                         \* host field of an absent object

Truthy(x) == x # None /\ x # ""      \* truth value of an Optional[str]
OrEmpty(x) == IF Truthy(x) THEN x ELSE ""

Split(query) ==
    CASE query = "python" -> <<"python">>
      [] query = "python tutorial" -> <<"python", "tutorial">>
      [] OTHER -> <<>>

\* Session configurations a caller constructs the client with.
Configs ==
    { [tld |-> None, lang |-> None, geoloc |-> None, proxy |-> None,
       timeout |-> 45, ipv4_only |-> FALSE, ipv6_only |-> FALSE, notweak |-> FALSE],
      [tld |-> "in", lang |-> "en", geoloc |-> None, proxy |-> "localhost:8118",
       timeout |-> 30, ipv4_only |-> TRUE, ipv6_only |-> FALSE, notweak |-> TRUE] }

\* The filter options of search() other than num, start, news and videos.
Filters ==
    { [exact |-> FALSE, duration |-> None, date_from |-> None, date_to |-> None,
       sites |-> <<>>, exclude |-> <<>>, unfilter |-> FALSE],
      [exact |-> TRUE, duration |-> "y1", date_from |-> None, date_to |-> None,
       sites |-> <<"docs.python.org">>, exclude |-> <<>>, unfilter |-> TRUE] }

NoFilter == [exact |-> FALSE, duration |-> None, date_from |-> None, date_to |-> None,
             sites |-> <<>>, exclude |-> <<>>, unfilter |-> FALSE]

Starts == 0..MaxStart
Nums == 0..MaxNum

\* Outcomes of the external collaborators (black boxes).
CtorOutcomes == {"ok", "GoogleConnectionError"}              \* GoogleConnection(...)
NewConnOutcomes == {"ok", "GoogleConnectionError"}           \* new_connection(host)
FetchOutcomes == {"ok", "GoogleConnectionError", "Exception"} \* fetch_page(url)
ParseOutcomes == {"ok", "Exception"}                         \* GoogleParser(html, ...)

(***************************************************************************)
(* Result model (models.py).                                               *)
(***************************************************************************)
\* Entries as the parser hands them over: attrs names the optional
\* attributes the object has.
RawSitelinkFull == [attrs |-> {"title", "url", "abstract"},
                    title |-> "st", url |-> "su", abstract |-> "sa"]
RawSitelinkBare == [attrs |-> {"url"}, title |-> "", url |-> "su2", abstract |-> ""]

RawPlain == [title |-> "t1", url |-> "u1", abstract |-> "a1", attrs |-> {},
             metadata |-> None, sitelinks |-> <<>>, matches |-> <<>>]
RawRich == [title |-> "t2", url |-> "u2", abstract |-> None,
            attrs |-> {"metadata", "sitelinks", "matches"},
            metadata |-> "m2", sitelinks |-> <<RawSitelinkFull, RawSitelinkBare>>,
            matches |-> <<[phrase |-> "py", offset |-> 0]>>]

\* What a parser run reports: entries, the autocorrect and filtered flags and
\* the corrected-query text.  The parser is a black box to the session, so
\* the text and the flag are reported independently of each other.
ParserOutputs ==
    { [results |-> <<RawPlain, RawRich>>, autocorrected |-> FALSE,
       showing_results_for |-> None, filtered |-> TRUE],
      [results |-> <<>>, autocorrected |-> TRUE,
       showing_results_for |-> "python", filtered |-> FALSE],
      [results |-> <<RawPlain>>, autocorrected |-> FALSE,
       showing_results_for |-> "python", filtered |-> FALSE] }

NoOutput == [results |-> <<>>, autocorrected |-> FALSE, showing_results_for |-> None,
             filtered |-> FALSE]

\* getattr(sl, name, "")
SitelinkAttr(sl, name, value) == IF name \in sl.attrs THEN value ELSE ""

SitelinkResult(sl) ==
    [title |-> SitelinkAttr(sl, "title", sl.title),
     url |-> SitelinkAttr(sl, "url", sl.url),
     abstract |-> SitelinkAttr(sl, "abstract", sl.abstract)]

\* Faulty variant: metadata is read without the default of getattr.
_result_to_search_result_NoDefault(result) ==
    [title |-> OrEmpty(result.title),
     url |-> OrEmpty(result.url),
     abstract |-> OrEmpty(result.abstract),
     metadata |-> result.metadata,
     sitelinks |-> IF result.sitelinks # <<>>
                   THEN [i \in 1..Len(result.sitelinks) |->
                            [title |-> result.sitelinks[i].title,
                             url |-> result.sitelinks[i].url,
                             abstract |-> result.sitelinks[i].abstract]]
                   ELSE <<>>,
     matches |-> result.matches]

\* _result_to_search_result: hasattr/getattr stand for the tests on attrs
_result_to_search_result(result) ==
    [title |-> OrEmpty(result.title),
     url |-> OrEmpty(result.url),
     abstract |-> OrEmpty(result.abstract),
     metadata |-> IF "metadata" \in result.attrs THEN result.metadata ELSE None,
     sitelinks |-> IF "sitelinks" \in result.attrs /\ result.sitelinks # <<>>
                   THEN [i \in 1..Len(result.sitelinks) |->
                            SitelinkResult(result.sitelinks[i])]
                   ELSE <<>>,
     matches |-> IF "matches" \in result.attrs /\ result.matches # <<>>
                 THEN result.matches ELSE <<>>]

\* Faulty variant: the entries are collected in reverse.
Normalize_Reversed(results) ==
    [i \in 1..Len(results) |-> _result_to_search_result(results[Len(results) + 1 - i])]

\* results = [_result_to_search_result(r) for r in parser.results]
Normalize(results) == [i \in 1..Len(results) |-> _result_to_search_result(results[i])]

(***************************************************************************)
(* URL resolver (url_builder.py; GoogleUrl from the specification).        *)
(***************************************************************************)
NoUrl == [exists |-> FALSE, host |-> NoHost, keywords |-> <<>>, num |-> 0, start |-> 0,
          lang |-> None, geoloc |-> None, news |-> FALSE, videos |-> FALSE,
          filter |-> NoFilter]

\* Host derivation of the resolver: www.google.<tld> when a countryTLD is
\* set, the fixed default host otherwise.
UrlHostname(tld) == IF Truthy(tld) THEN "www.google." \o tld ELSE "www.google.com"

\* The page index of a resolved URL: startOffset / resultCount when
\* resultCount > 0, else 0.
UrlPage(url) == IF url.num > 0 THEN url.start \div url.num ELSE 0

\* GoogleUrl(opts)
GoogleUrl(opts) ==
    [exists |-> TRUE, host |-> UrlHostname(opts.tld), keywords |-> opts.keywords,
     num |-> opts.num, start |-> opts.start, lang |-> opts.lang, geoloc |-> opts.geoloc,
     news |-> opts.news, videos |-> opts.videos, filter |-> opts.filter]

\* Advance one page.
UrlNextPage(url) == [url EXCEPT !.start = url.start + url.num]

\* Retreat one page: an out-of-range condition (ValueError) below page 0,
\* no clamping.
UrlPrevPageRaises(url) == UrlPage(url) = 0
UrlPrevPage(url) == [url EXCEPT !.start = url.start - url.num]

_build_opts_namespace(query, num, start, c, filter, news, videos) ==
    [keywords |-> Split(query), num |-> num, start |-> start, lang |-> c.lang,
     geoloc |-> c.geoloc, tld |-> c.tld, filter |-> filter,
     news |-> news, videos |-> videos]

build_url(query, num, start, c, filter, news, videos) ==
    GoogleUrl(_build_opts_namespace(query, num, start, c, filter, news, videos))

(***************************************************************************)
(* Connection Manager (connection.py).                                     *)
(*   exists : the ManagedConnection object exists (client._conn not None)  *)
(*   host   : ManagedConnection._host                                      *)
(*   up     : ManagedConnection._conn is not None                          *)
(*   engHost: the host the GoogleConnection is connected to                *)
(* Operations return [mgr, exc, ...]: the manager afterwards and the       *)
(* exception raised ("none" when it returned).                             *)
(***************************************************************************)
NoMgr == [exists |-> FALSE, host |-> NoHost, up |-> FALSE, engHost |-> NoHost]

ManagedConnection(host) == [exists |-> TRUE, host |-> host, up |-> FALSE, engHost |-> NoHost]

\* Faulty variant: the engine's failure is let through untranslated.
WrapEngineError_Raw(e) == e

\* The translation of an engine failure by connect/fetch_page/reconnect.
WrapEngineError(e) == IF e = "GoogleConnectionError" THEN "ConnectionError" ELSE e

\* Faulty variant: no "if self._conn is not None: return".
MgrConnect_Always(m, eCtor) ==
    IF eCtor = "ok"
    THEN [mgr |-> [m EXCEPT !.up = TRUE, !.engHost = m.host], exc |-> "none", nctor |-> 1]
    ELSE [mgr |-> m, exc |-> IF eCtor = "GoogleConnectionError" THEN "ConnectionError" ELSE eCtor,
          nctor |-> 1]

\* ManagedConnection.connect
MgrConnect(m, eCtor) ==
    IF m.up THEN [mgr |-> m, exc |-> "none", nctor |-> 0]
    ELSE IF eCtor = "ok"
         THEN [mgr |-> [m EXCEPT !.up = TRUE, !.engHost = m.host],
               exc |-> "none", nctor |-> 1]
         ELSE [mgr |-> m, exc |-> WrapEngineError(eCtor), nctor |-> 1]

\* Faulty variant: no "if self._conn is None: self.connect()".
MgrFetchPage_NoConnect(m, eCtor, eFetch) ==
    IF ~m.up
    THEN [mgr |-> m, exc |-> "AttributeError", nctor |-> 0, nfetch |-> 0,
          fetchHost |-> NoHost]
    ELSE [mgr |-> m,
          exc |-> IF eFetch = "ok" THEN "none"
                  ELSE IF eFetch = "GoogleConnectionError" THEN "ConnectionError"
                  ELSE eFetch,
          nctor |-> 0, nfetch |-> 1, fetchHost |-> m.engHost]

\* ManagedConnection.fetch_page
MgrFetchPage(m, eCtor, eFetch) ==
    LET c == MgrConnect(m, eCtor) IN
    IF c.exc # "none"
    THEN [mgr |-> c.mgr, exc |-> c.exc, nctor |-> c.nctor, nfetch |-> 0,
          fetchHost |-> NoHost]
    ELSE [mgr |-> c.mgr,
          exc |-> IF eFetch = "ok" THEN "none" ELSE WrapEngineError(eFetch),
          nctor |-> c.nctor, nfetch |-> 1, fetchHost |-> c.mgr.engHost]

\* Faulty variant: no "if host: self._host = host".
MgrReconnect_KeepHost(m, host, eNew) ==
    IF ~m.up THEN [mgr |-> m, exc |-> "none", nnew |-> 0]
    ELSE IF eNew = "ok"
         THEN [mgr |-> [m EXCEPT !.engHost = IF Truthy(host) THEN host ELSE m.engHost],
               exc |-> "none", nnew |-> 1]
         ELSE [mgr |-> m,
               exc |-> IF eNew = "GoogleConnectionError" THEN "ConnectionError" ELSE eNew,
               nnew |-> 1]

\* ManagedConnection.reconnect
MgrReconnect(m, host, eNew) ==
    IF ~m.up THEN [mgr |-> m, exc |-> "none", nnew |-> 0]
    ELSE IF eNew = "ok"
         THEN [mgr |-> [m EXCEPT !.engHost = IF Truthy(host) THEN host ELSE m.engHost,
                                 !.host = IF Truthy(host) THEN host ELSE m.host],
               exc |-> "none", nnew |-> 1]
         ELSE [mgr |-> m, exc |-> WrapEngineError(eNew), nnew |-> 1]

\* Faulty variant: the engine connection is not released.
MgrClose_Keep(m) == m

\* ManagedConnection.close
MgrClose(m) == [m EXCEPT !.up = FALSE, !.engHost = NoHost]

is_connected(m) == m.up

\* "self._conn is not None and self._conn.is_connected"
SessionConnected(m) == m.exists /\ is_connected(m)

(***************************************************************************)
(* Search Session (client.py).                                             *)
(***************************************************************************)
VARIABLES
    subject,        \* what the caller uses: a session, a connection manager, the functions
    cfg,            \* _tld, _lang, _geoloc, _proxy, _timeout, _ipv4_only, _ipv6_only, _notweak
    conn,           \* _conn: the ManagedConnection, NoMgr for None
    google_url,     \* _google_url: the resolved URL, NoUrl for None
    current_page,   \* _current_page
    last_query,     \* _last_query
    last_kwargs,    \* _last_kwargs
    call,           \* the most recent call: operation, arguments, outcome, engine use,
                    \* whether it found the connection up (was), and for __exit__ the
                    \* exception it was called with (exc) and the one that goes on
                    \* to the caller (propagated)
    resp,           \* the SearchResponse the most recent call returned
    hist,           \* what has happened in the session so far: whether search was
                    \* called, whether one succeeded, and the most recent search call
                    \* when it succeeded
    scope,          \* position of the caller relative to a with-block on the session
    ret             \* what the last call on a SearchResponse returned (models.py)

vars == <<subject, cfg, conn, google_url, current_page, last_query, last_kwargs, call, resp,
          hist, scope, ret>>

NoKwargs == [num |-> 0, news |-> FALSE, videos |-> FALSE, filter |-> NoFilter,
             set |-> FALSE]

NoResp == [exists |-> FALSE, results |-> <<>>, query |-> "", url |-> NoUrl,
           autocorrected |-> FALSE, showing_results_for |-> None, filtered |-> FALSE,
           page |-> 0]

\* SearchResponse(results=..., query=..., url=..., ...)
SearchResponse(results, query, url, out, page) ==
    [exists |-> TRUE, results |-> results, query |-> query, url |-> url,
     autocorrected |-> out.autocorrected,
     showing_results_for |-> out.showing_results_for,
     filtered |-> out.filtered, page |-> page]

\* The choices of the external collaborators during one call.  A call ends
\* at its first failing step, so one failing step per choice covers them all.
AllOk == [ctor |-> "ok", new |-> "ok", fetch |-> "ok", parse |-> "ok", out |-> NoOutput]

Envs ==
    { [AllOk EXCEPT !.out = o] : o \in ParserOutputs }
    \cup { [AllOk EXCEPT !.ctor = e] : e \in CtorOutcomes \ {"ok"} }
    \cup { [AllOk EXCEPT !.new = e] : e \in NewConnOutcomes \ {"ok"} }
    \cup { [AllOk EXCEPT !.fetch = e] : e \in FetchOutcomes \ {"ok"} }
    \cup { [AllOk EXCEPT !.parse = e] : e \in ParseOutcomes \ {"ok"} }

\* Faulty variant: connect() always targets the default host.
ClientHostname_Default(tld) == "www.google.com"

\* hostname of GoogleSearchClient.connect
ClientHostname(tld) == IF Truthy(tld) THEN "www.google." \o tld ELSE "www.google.com"

\* GoogleSearchClient.connect
ClientConnect(m, c, eCtor) ==
    IF SessionConnected(m)
    THEN [mgr |-> m, exc |-> "none", nctor |-> 0]
    ELSE MgrConnect(ManagedConnection(ClientHostname(c.tld)), eCtor)

\* Faulty variant: the manager is closed but kept.
ClientClose_NoReset(m) == IF m.exists THEN MgrClose(m) ELSE m

\* GoogleSearchClient.close
ClientClose(m) == IF m.exists THEN NoMgr ELSE m

\* Faulty variant: the start offset is taken for the page index.
PageOf_Offset(start, num) == start

\* self._current_page = start // num if num > 0 else 0
PageOf(start, num) == IF num > 0 THEN start \div num ELSE 0

\* Faulty variant: no "except ConnectionError: raise" before the catch-all.
FetchFailure_WrapAll(exc) == "SearchError"

\* The except clauses around the fetch step of _fetch_and_parse.
FetchFailure(exc) == IF exc = "ConnectionError" THEN "ConnectionError" ELSE "SearchError"

\* The except clause around the parse step of _fetch_and_parse.
ParseFailure(exc) == "ParseError"

\* No parser run.
NoFlags == [news |-> FALSE, videos |-> FALSE]

\* Faulty variant: the parser is always run for the web vertical.
ParserFlags_Web(url) == [news |-> FALSE, videos |-> FALSE]

\* GoogleParser(html, news=self._google_url.news, videos=self._google_url.videos)
ParserFlags(url) == [news |-> url.news, videos |-> url.videos]

\* Faulty variant: a failed fetch is tried once more before giving up.
FetchAndParse_Retry(m, url, page, lq, env) ==
    IF ~m.exists
    THEN [mgr |-> m, outcome |-> FetchFailure("AttributeError"), nctor |-> 0,
          nfetch |-> 0, nparse |-> 0, fetchHost |-> NoHost, flags |-> NoFlags,
          resp |-> NoResp]
    ELSE LET f == MgrFetchPage(m, env.ctor, env.fetch)
             g == MgrFetchPage(f.mgr, env.ctor, env.fetch)
         IN
         IF f.exc # "none"
         THEN [mgr |-> g.mgr, outcome |-> FetchFailure(g.exc),
               nctor |-> f.nctor + g.nctor, nfetch |-> f.nfetch + g.nfetch,
               nparse |-> 0, fetchHost |-> g.fetchHost, flags |-> NoFlags,
               resp |-> NoResp]
         ELSE IF env.parse # "ok"
         THEN [mgr |-> f.mgr, outcome |-> ParseFailure(env.parse), nctor |-> f.nctor,
               nfetch |-> f.nfetch, nparse |-> 1, fetchHost |-> f.fetchHost,
               flags |-> ParserFlags(url), resp |-> NoResp]
         ELSE [mgr |-> f.mgr, outcome |-> "ok", nctor |-> f.nctor,
               nfetch |-> f.nfetch, nparse |-> 1, fetchHost |-> f.fetchHost,
               flags |-> ParserFlags(url),
               resp |-> SearchResponse(Normalize(env.out.results), OrEmpty(lq), url,
                                       env.out, page)]

\* GoogleSearchClient._fetch_and_parse on manager m, stored URL url, page
\* counter page and stored query lq.
FetchAndParse(m, url, page, lq, env) ==
    IF ~m.exists
    THEN \* self._conn is None: the attribute error is caught as any other failure
         [mgr |-> m, outcome |-> FetchFailure("AttributeError"), nctor |-> 0,
          nfetch |-> 0, nparse |-> 0, fetchHost |-> NoHost, flags |-> NoFlags,
          resp |-> NoResp]
    ELSE LET f == MgrFetchPage(m, env.ctor, env.fetch) IN
         IF f.exc # "none"
         THEN [mgr |-> f.mgr, outcome |-> FetchFailure(f.exc), nctor |-> f.nctor,
               nfetch |-> f.nfetch, nparse |-> 0, fetchHost |-> f.fetchHost,
               flags |-> NoFlags, resp |-> NoResp]
         ELSE IF env.parse # "ok"
         THEN [mgr |-> f.mgr, outcome |-> ParseFailure(env.parse), nctor |-> f.nctor,
               nfetch |-> f.nfetch, nparse |-> 1, fetchHost |-> f.fetchHost,
               flags |-> ParserFlags(url), resp |-> NoResp]
         ELSE [mgr |-> f.mgr, outcome |-> "ok", nctor |-> f.nctor,
               nfetch |-> f.nfetch, nparse |-> 1, fetchHost |-> f.fetchHost,
               flags |-> ParserFlags(url),
               resp |-> SearchResponse(Normalize(env.out.results), OrEmpty(lq), url,
                                       env.out, page)]

\* The mutable fields of the session, as one value.
Session == [conn |-> conn, url |-> google_url, page |-> current_page,
            lq |-> last_query, lk |-> last_kwargs]

\* The other filter options the model calls search() with.
SomeFilter == CHOOSE f \in Filters : f.exact

\* The arguments search() is called with: query, num, start, filter, news, videos.
SearchArgs ==
    { [query |-> "python", num |-> n, start |-> st, filter |-> NoFilter,
       news |-> FALSE, videos |-> FALSE] : n \in Nums, st \in Starts }

\* The arguments search_news(), search_videos() and search_json() are called
\* with (start left at its default); the vertical is set by the operation.
NewsArgs ==
    { [query |-> "python tutorial", num |-> 1, start |-> 0, filter |-> SomeFilter,
       news |-> FALSE, videos |-> FALSE] }

VideosArgs ==
    { [query |-> "python", num |-> 2, start |-> 0, filter |-> NoFilter,
       news |-> FALSE, videos |-> FALSE] }

JsonArgs ==
    { [query |-> "python tutorial", num |-> 1, start |-> 0, filter |-> NoFilter,
       news |-> FALSE, videos |-> FALSE] }

NoArgs == [query |-> "", num |-> 0, start |-> 0, filter |-> NoFilter, news |-> FALSE,
           videos |-> FALSE]

\* A call that did not reach the engine or the parser.  Of a call that did:
\* how often it constructed a connection, called new_connection, fetched and
\* parsed, the host it fetched from, what each collaborator answered, and
\* what the parser reported, and the vertical flags the parser was run with.
NoUse == [nctor |-> 0, nnew |-> 0, nfetch |-> 0, nparse |-> 0, fetchHost |-> NoHost,
          ctor |-> "none", fetch |-> "none", parse |-> "none", out |-> NoOutput,
          flags |-> NoFlags]

\* The engine use of a call that got as far as nctor constructions and nnew
\* new_connection calls.
ConnUse(nctor, nnew, env) ==
    [NoUse EXCEPT !.nctor = nctor, !.nnew = nnew,
                  !.ctor = IF nctor > 0 THEN env.ctor ELSE "none"]

\* The engine and parser use of a call that ran _fetch_and_parse.
UseOf(nctor, nnew, f, env) ==
    [nctor |-> nctor + f.nctor, nnew |-> nnew, nfetch |-> f.nfetch, nparse |-> f.nparse,
     fetchHost |-> f.fetchHost,
     ctor |-> IF nctor + f.nctor > 0 THEN env.ctor ELSE "none",
     fetch |-> IF f.nfetch > 0 THEN env.fetch ELSE "none",
     parse |-> IF f.nparse > 0 THEN env.parse ELSE "none",
     out |-> IF f.outcome = "ok" THEN env.out ELSE NoOutput,
     flags |-> f.flags]

\* Faulty variant: the query, the options and the page counter are stored
\* before the session connects.
Search_StoreFirst(s, c, a, env) ==
    LET cn == ClientConnect(s.conn, c, env.ctor) IN
    IF cn.exc # "none"
    THEN [s |-> [s EXCEPT !.conn = cn.mgr, !.page = PageOf(a.start, a.num),
                          !.lq = a.query,
                          !.lk = [num |-> a.num, news |-> a.news, videos |-> a.videos,
                                  filter |-> a.filter, set |-> TRUE]],
          outcome |-> cn.exc, msg |-> "connect",
          resp |-> NoResp, use |-> ConnUse(cn.nctor, 0, env)]
    ELSE LET u == build_url(a.query, a.num, a.start, c, a.filter, a.news, a.videos)
             s1 == [conn |-> cn.mgr, url |-> u, page |-> PageOf(a.start, a.num),
                    lq |-> a.query,
                    lk |-> [num |-> a.num, news |-> a.news, videos |-> a.videos,
                            filter |-> a.filter, set |-> TRUE]]
             rc == IF cn.mgr.host # u.host
                   THEN MgrReconnect(cn.mgr, u.host, env.new)
                   ELSE [mgr |-> cn.mgr, exc |-> "none", nnew |-> 0]
         IN  IF rc.exc # "none"
             THEN [s |-> [s1 EXCEPT !.conn = rc.mgr], outcome |-> rc.exc,
                   msg |-> "reconnect", resp |-> NoResp,
                   use |-> ConnUse(cn.nctor, rc.nnew, env)]
             ELSE LET f == FetchAndParse(rc.mgr, u, s1.page, s1.lq, env) IN
                  [s |-> [s1 EXCEPT !.conn = f.mgr], outcome |-> f.outcome, msg |-> "",
                   resp |-> f.resp, use |-> UseOf(cn.nctor, rc.nnew, f, env)]

\* GoogleSearchClient.search: the session afterwards (s), the outcome
\* ("ok" or the exception raised), the response and the engine use.
Search(s, c, a, env) ==
    LET cn == ClientConnect(s.conn, c, env.ctor) IN
    IF cn.exc # "none"
    THEN [s |-> [s EXCEPT !.conn = cn.mgr], outcome |-> cn.exc, msg |-> "connect",
          resp |-> NoResp, use |-> ConnUse(cn.nctor, 0, env)]
    ELSE LET u == build_url(a.query, a.num, a.start, c, a.filter, a.news, a.videos)
             s1 == [conn |-> cn.mgr, url |-> u, page |-> PageOf(a.start, a.num),
                    lq |-> a.query,
                    lk |-> [num |-> a.num, news |-> a.news, videos |-> a.videos,
                            filter |-> a.filter, set |-> TRUE]]
             rc == IF cn.mgr.host # u.host
                   THEN MgrReconnect(cn.mgr, u.host, env.new)
                   ELSE [mgr |-> cn.mgr, exc |-> "none", nnew |-> 0]
         IN  IF rc.exc # "none"
             THEN [s |-> [s1 EXCEPT !.conn = rc.mgr], outcome |-> rc.exc,
                   msg |-> "reconnect", resp |-> NoResp,
                   use |-> ConnUse(cn.nctor, rc.nnew, env)]
             ELSE LET f == FetchAndParse(rc.mgr, u, s1.page, s1.lq, env) IN
                  [s |-> [s1 EXCEPT !.conn = f.mgr], outcome |-> f.outcome, msg |-> "",
                   resp |-> f.resp, use |-> UseOf(cn.nctor, rc.nnew, f, env)]

\* Faulty variant: the question asked is whether a connection manager exists.
NoPreviousSearch_ByConn(s) == ~s.conn.exists

\* if self._google_url is None
NoPreviousSearch(s) == ~s.url.exists

\* Faulty variant: the page counter is not advanced.
NextPageCounter_Stuck(page) == page

\* self._current_page += 1
NextPageCounter(page) == page + 1

\* self._current_page -= 1
PrevPageCounter(page) == page - 1

\* Faulty variant: the resolver's ValueError is not translated.
PrevPageFailure_Raw(exc) == exc

\* except ValueError as e: raise SearchError("Already at the first page.") from e
PrevPageFailure(exc) == "SearchError"

\* Faulty variant: the counter is advanced before the test for a previous search.
NextPageCall_CountFirst(s, env) ==
    IF NoPreviousSearch(s)
    THEN [s |-> [s EXCEPT !.page = NextPageCounter(s.page)], outcome |-> "SearchError",
          msg |-> "no previous search", resp |-> NoResp, use |-> NoUse]
    ELSE LET u == UrlNextPage(s.url)
             p == NextPageCounter(s.page)
             f == FetchAndParse(s.conn, u, p, s.lq, env)
         IN  [s |-> [s EXCEPT !.url = u, !.page = p, !.conn = f.mgr],
              outcome |-> f.outcome, msg |-> "", resp |-> f.resp,
              use |-> UseOf(0, 0, f, env)]

\* GoogleSearchClient.next_page
NextPageCall(s, env) ==
    IF NoPreviousSearch(s)
    THEN [s |-> s, outcome |-> "SearchError", msg |-> "no previous search",
          resp |-> NoResp, use |-> NoUse]
    ELSE LET u == UrlNextPage(s.url)
             p == NextPageCounter(s.page)
             f == FetchAndParse(s.conn, u, p, s.lq, env)
         IN  [s |-> [s EXCEPT !.url = u, !.page = p, !.conn = f.mgr],
              outcome |-> f.outcome, msg |-> "", resp |-> f.resp,
              use |-> UseOf(0, 0, f, env)]

\* Faulty variant: the resolver's ValueError is swallowed and the call goes on.
PrevPageCall_Swallow(s, env) ==
    IF NoPreviousSearch(s)
    THEN [s |-> s, outcome |-> "SearchError", msg |-> "no previous search",
          resp |-> NoResp, use |-> NoUse]
    ELSE LET u == IF UrlPrevPageRaises(s.url) THEN s.url ELSE UrlPrevPage(s.url)
             p == PrevPageCounter(s.page)
             f == FetchAndParse(s.conn, u, p, s.lq, env)
         IN  [s |-> [s EXCEPT !.url = u, !.page = p, !.conn = f.mgr],
              outcome |-> f.outcome, msg |-> "", resp |-> f.resp,
              use |-> UseOf(0, 0, f, env)]

\* GoogleSearchClient.prev_page
PrevPageCall(s, env) ==
    IF NoPreviousSearch(s)
    THEN [s |-> s, outcome |-> "SearchError", msg |-> "no previous search",
          resp |-> NoResp, use |-> NoUse]
    ELSE IF UrlPrevPageRaises(s.url)
    THEN [s |-> s, outcome |-> PrevPageFailure("ValueError"), msg |-> "first page",
          resp |-> NoResp, use |-> NoUse]
    ELSE LET u == UrlPrevPage(s.url)
             p == PrevPageCounter(s.page)
             f == FetchAndParse(s.conn, u, p, s.lq, env)
         IN  [s |-> [s EXCEPT !.url = u, !.page = p, !.conn = f.mgr],
              outcome |-> f.outcome, msg |-> "", resp |-> f.resp,
              use |-> UseOf(0, 0, f, env)]

\* Faulty variant: every optional key is written, empty or not.
to_dict_AllKeys(r) ==
    [k \in {"title", "url", "abstract", "metadata", "sitelinks", "matches"} |->
        CASE k = "title" -> <<r.title>>
          [] k = "url" -> <<r.url>>
          [] k = "abstract" -> <<r.abstract>>
          [] k = "metadata" -> <<r.metadata>>
          [] k = "sitelinks" -> r.sitelinks
          [] k = "matches" -> r.matches]

\* {"title": s.title, "url": s.url, "abstract": s.abstract}
sitelink_dict(s) == [title |-> s.title, url |-> s.url, abstract |-> s.abstract]

\* SearchResult.to_dict
to_dict(r) ==
    [k \in {"title", "url", "abstract"}
            \cup (IF Truthy(r.metadata) THEN {"metadata"} ELSE {})
            \cup (IF r.sitelinks # <<>> THEN {"sitelinks"} ELSE {})
            \cup (IF r.matches # <<>> THEN {"matches"} ELSE {}) |->
        CASE k = "title" -> <<r.title>>
          [] k = "url" -> <<r.url>>
          [] k = "abstract" -> <<r.abstract>>
          [] k = "metadata" -> <<r.metadata>>
          [] k = "sitelinks" -> [i \in 1..Len(r.sitelinks) |-> sitelink_dict(r.sitelinks[i])]
          [] k = "matches" -> r.matches]

\* SearchResponse.to_dicts, which to_json serializes
to_dicts(response) == [i \in 1..Len(response.results) |-> to_dict(response.results[i])]

\* A SearchResult with every field at its default.
NoResult == [title |-> "", url |-> "", abstract |-> "", metadata |-> None,
             sitelinks |-> <<>>, matches |-> <<>>]

\* No call on a response has returned yet.
NoRet == [len |-> 0, truth |-> FALSE, items |-> <<>>, index |-> 0, item |-> NoResult]

\* Nothing has happened yet.
NoHist ==
    [searchCalled |-> FALSE, searchOk |-> FALSE,
     last |-> [ok |-> FALSE, query |-> "", num |-> 0, news |-> FALSE, videos |-> FALSE,
               filter |-> NoFilter]]

(***************************************************************************)
(* The session as a state machine: one action per public operation.        *)
(***************************************************************************)
InitSession ==
    /\ subject = "session"
    /\ cfg \in Configs
    /\ conn = NoMgr
    /\ google_url = NoUrl
    /\ current_page = 0
    /\ last_query = None
    /\ last_kwargs = NoKwargs
    /\ call = [op |-> "__init__", args |-> NoArgs, outcome |-> "ok", msg |-> "",
               use |-> NoUse, json |-> <<>>, host |-> NoHost,
               was |-> FALSE, exc |-> "none", propagated |-> "none", inside |-> FALSE]
    /\ resp = NoResp
    /\ hist = NoHist
    /\ scope = "outside"
    /\ ret = NoRet

\* Faulty variant: an operation falls back to the default country.
ConfigKept_Default(c) == [c EXCEPT !.tld = None]

\* No operation assigns a configuration field: they are set in __init__ only.
ConfigKept(c) == c

\* Faulty variant: search() does not record self._last_query.
Store_KeepQuery(r) ==
    /\ conn' = r.s.conn
    /\ google_url' = r.s.url
    /\ current_page' = r.s.page
    /\ last_query' = last_query
    /\ last_kwargs' = r.s.lk
    /\ resp' = r.resp

\* The session fields after a call with result r.
Store(r) ==
    /\ conn' = r.s.conn
    /\ google_url' = r.s.url
    /\ current_page' = r.s.page
    /\ last_query' = r.s.lq
    /\ last_kwargs' = r.s.lk
    /\ resp' = r.resp

\* The record of a call op(a) with result r.
Called(op, a, r) ==
    [op |-> op, args |-> a, outcome |-> r.outcome, msg |-> r.msg, use |-> r.use,
     json |-> IF op = "search_json" /\ r.outcome = "ok" THEN to_dicts(r.resp) ELSE <<>>,
     host |-> NoHost,
     was |-> SessionConnected(conn), exc |-> "none",
     propagated |-> "none", inside |-> scope = "inside"]

\* Whether next_page is explored from session s.
InBounds(s) ==
    s.url.exists => (s.url.start + s.url.num <= MaxOffset /\ s.page < MaxPage)

Connect ==
    \E e \in CtorOutcomes :
        LET cn == ClientConnect(conn, cfg, e) IN
        /\ subject = "session"
        /\ conn' = cn.mgr
        /\ call' = [op |-> "connect", args |-> NoArgs,
                    outcome |-> IF cn.exc = "none" THEN "ok" ELSE cn.exc, msg |-> "",
                    use |-> ConnUse(cn.nctor, 0, [AllOk EXCEPT !.ctor = e]), json |-> <<>>,
                    host |-> NoHost,
                    was |-> SessionConnected(conn), exc |-> "none",
                    propagated |-> "none", inside |-> scope = "inside"]
        /\ resp' = NoResp
        /\ cfg' = ConfigKept(cfg)
        /\ UNCHANGED <<subject, ret, google_url, current_page, last_query, last_kwargs, hist, scope>>

Close ==
    /\ subject = "session"
    /\ conn' = ClientClose(conn)
    /\ call' = [op |-> "close", args |-> NoArgs, outcome |-> "ok", msg |-> "",
                use |-> NoUse, json |-> <<>>, host |-> NoHost,
                was |-> SessionConnected(conn), exc |-> "none", propagated |-> "none",
                inside |-> scope = "inside"]
    /\ resp' = NoResp
    /\ cfg' = ConfigKept(cfg)
    /\ UNCHANGED <<subject, ret, google_url, current_page, last_query, last_kwargs, hist, scope>>

SearchOp(op, a, env) ==
    LET r == Search(Session, cfg, a, env) IN
    /\ subject = "session"
    /\ Store(r)
    /\ call' = Called(op, a, r)
    /\ hist' = [searchCalled |-> TRUE, searchOk |-> hist.searchOk \/ r.outcome = "ok",
                last |-> IF r.outcome = "ok"
                         THEN [ok |-> TRUE, query |-> a.query, num |-> a.num,
                               news |-> a.news, videos |-> a.videos,
                               filter |-> a.filter]
                         ELSE NoHist.last]
    /\ cfg' = ConfigKept(cfg)
    /\ UNCHANGED <<subject, ret, scope>>

search == \E a \in SearchArgs, env \in Envs : SearchOp("search", a, env)

search_news ==
    \E a \in NewsArgs, env \in Envs :
        SearchOp("search_news", [a EXCEPT !.news = TRUE], env)

search_videos ==
    \E a \in VideosArgs, env \in Envs :
        SearchOp("search_videos", [a EXCEPT !.videos = TRUE], env)

search_json == \E a \in JsonArgs, env \in Envs : SearchOp("search_json", a, env)

next_page ==
    \E env \in Envs :
        LET r == NextPageCall(Session, env) IN
        /\ subject = "session"
        /\ InBounds(Session)
        /\ Store(r)
        /\ call' = Called("next_page", NoArgs, r)
        /\ cfg' = ConfigKept(cfg)
        /\ UNCHANGED <<subject, ret, hist, scope>>

prev_page ==
    \E env \in Envs :
        LET r == PrevPageCall(Session, env) IN
        /\ subject = "session"
        /\ Store(r)
        /\ call' = Called("prev_page", NoArgs, r)
        /\ cfg' = ConfigKept(cfg)
        /\ UNCHANGED <<subject, ret, hist, scope>>

\* with client: ... : __enter__ connects; the block is entered when it returns.
ScopeEnter ==
    \E e \in CtorOutcomes :
        LET cn == ClientConnect(conn, cfg, e) IN
        /\ subject = "session"
        /\ scope = "outside"
        /\ conn' = cn.mgr
        /\ scope' = IF cn.exc = "none" THEN "inside" ELSE "outside"
        /\ call' = [op |-> "__enter__", args |-> NoArgs,
                    outcome |-> IF cn.exc = "none" THEN "ok" ELSE cn.exc, msg |-> "",
                    use |-> ConnUse(cn.nctor, 0, [AllOk EXCEPT !.ctor = e]), json |-> <<>>,
                    host |-> NoHost,
                    was |-> SessionConnected(conn), exc |-> "none",
                    propagated |-> "none", inside |-> FALSE]
        /\ resp' = NoResp
        /\ cfg' = ConfigKept(cfg)
        /\ UNCHANGED <<subject, ret, google_url, current_page, last_query, last_kwargs, hist>>

\* Faulty variant: __exit__ returns a true value.
ExitSuppresses_Always == TRUE

\* The value __exit__ returns: a true value would suppress the exception.
ExitSuppresses == FALSE

\* The block is left, normally or by the exception exc the last call in it
\* raised: __exit__(*exc) closes and returns False.
ScopeExit ==
    \E exc \in {"none", call.outcome} :
        /\ subject = "session"
        /\ scope = "inside"
        /\ exc # "ok"
        /\ exc # "none" => call.inside
        /\ conn' = ClientClose(conn)
        /\ scope' = "outside"
        /\ call' = [op |-> "__exit__", args |-> NoArgs, outcome |-> "ok", msg |-> "",
                    use |-> NoUse, json |-> <<>>, host |-> NoHost,
                    was |-> SessionConnected(conn), exc |-> exc,
                    propagated |-> IF ExitSuppresses THEN "none" ELSE exc,
                    inside |-> FALSE]
        /\ resp' = NoResp
        /\ cfg' = ConfigKept(cfg)
        /\ UNCHANGED <<subject, ret, google_url, current_page, last_query, last_kwargs, hist>>

(***************************************************************************)
(* A ManagedConnection used on its own (connection.py): conn is the        *)
(* manager, call its most recent call; the session fields stay as          *)
(* constructed.                                                            *)
(***************************************************************************)
InitManager ==
    /\ subject = "manager"
    /\ cfg \in Configs
    /\ conn = ManagedConnection(ClientHostname(cfg.tld))
    /\ google_url = NoUrl
    /\ current_page = 0
    /\ last_query = None
    /\ last_kwargs = NoKwargs
    /\ call = [op |-> "ManagedConnection", args |-> NoArgs, outcome |-> "ok", msg |-> "",
               use |-> NoUse, json |-> <<>>, host |-> NoHost,
               was |-> FALSE, exc |-> "none", propagated |-> "none",
               inside |-> FALSE]
    /\ resp = NoResp
    /\ hist = NoHist
    /\ scope = "outside"
    /\ ret = NoRet

\* The hosts reconnect() is called with; None is the omitted argument.
ReconnectHosts == {None, "www.google.com", "www.google.in"}

\* The record of a call on the manager.
MgrCalled(op, host, exc, use) ==
    [op |-> op, args |-> NoArgs, outcome |-> IF exc = "none" THEN "ok" ELSE exc,
     msg |-> "", use |-> use, json |-> <<>>, host |-> host,
     was |-> SessionConnected(conn), exc |-> "none", propagated |-> "none",
     inside |-> scope = "inside"]

SessionFieldsKept ==
    /\ cfg' = ConfigKept(cfg)
    /\ UNCHANGED <<subject, ret, google_url, current_page, last_query, last_kwargs, resp,
                   hist, scope>>

mgr_connect ==
    \E e \in CtorOutcomes :
        LET r == MgrConnect(conn, e) IN
        /\ subject = "manager"
        /\ conn' = r.mgr
        /\ call' = MgrCalled("mgr.connect", NoHost, r.exc,
                             ConnUse(r.nctor, 0, [AllOk EXCEPT !.ctor = e]))
        /\ SessionFieldsKept

mgr_fetch_page ==
    \E env \in Envs :
        LET r == MgrFetchPage(conn, env.ctor, env.fetch) IN
        /\ subject = "manager"
        /\ conn' = r.mgr
        /\ call' = MgrCalled("mgr.fetch_page", NoHost, r.exc,
                             [ConnUse(r.nctor, 0, env) EXCEPT
                                 !.nfetch = r.nfetch, !.fetchHost = r.fetchHost,
                                 !.fetch = IF r.nfetch > 0 THEN env.fetch ELSE "none"])
        /\ SessionFieldsKept

mgr_reconnect ==
    \E h \in ReconnectHosts, e \in NewConnOutcomes :
        LET r == MgrReconnect(conn, h, e) IN
        /\ subject = "manager"
        /\ conn' = r.mgr
        /\ call' = MgrCalled("mgr.reconnect", h, r.exc, ConnUse(0, r.nnew, AllOk))
        /\ SessionFieldsKept

mgr_close ==
    /\ subject = "manager"
    /\ conn' = MgrClose(conn)
    /\ call' = MgrCalled("mgr.close", NoHost, "none", NoUse)
    /\ SessionFieldsKept

\* with manager: ... : __enter__ connects; the block is entered when it returns.
mgr_enter ==
    \E e \in CtorOutcomes :
        LET r == MgrConnect(conn, e) IN
        /\ subject = "manager"
        /\ scope = "outside"
        /\ conn' = r.mgr
        /\ scope' = IF r.exc = "none" THEN "inside" ELSE "outside"
        /\ call' = [MgrCalled("mgr.__enter__", NoHost, r.exc,
                               ConnUse(r.nctor, 0, [AllOk EXCEPT !.ctor = e]))
                       EXCEPT !.inside = FALSE]
        /\ cfg' = ConfigKept(cfg)
        /\ UNCHANGED <<subject, ret, google_url, current_page, last_query, last_kwargs,
                       resp, hist>>

\* The value ManagedConnection.__exit__ returns.
MgrExitSuppresses == FALSE

\* The block is left, normally or by the exception exc the last call in it
\* raised: __exit__(*exc) closes and returns False.
mgr_exit ==
    \E exc \in {"none", call.outcome} :
        /\ subject = "manager"
        /\ scope = "inside"
        /\ exc # "ok"
        /\ exc # "none" => call.inside
        /\ conn' = MgrClose(conn)
        /\ scope' = "outside"
        /\ call' = [MgrCalled("mgr.__exit__", NoHost, "none", NoUse)
                       EXCEPT !.exc = exc,
                              !.propagated = IF MgrExitSuppresses THEN "none" ELSE exc,
                              !.inside = FALSE]
        /\ cfg' = ConfigKept(cfg)
        /\ UNCHANGED <<subject, ret, google_url, current_page, last_query, last_kwargs,
                       resp, hist>>

(***************************************************************************)
(* The module-level functions (__init__.py): each call makes a session of  *)
(* its own in a with-block, searches once and returns response.results.    *)
(* After a call the session fields show the session the call has dropped.  *)
(***************************************************************************)
InitFunction ==
    /\ subject = "function"
    /\ cfg \in Configs
    /\ conn = NoMgr
    /\ google_url = NoUrl
    /\ current_page = 0
    /\ last_query = None
    /\ last_kwargs = NoKwargs
    /\ call = [op |-> "import", args |-> NoArgs, outcome |-> "ok", msg |-> "",
               use |-> NoUse, json |-> <<>>, host |-> NoHost, was |-> FALSE,
               exc |-> "none", propagated |-> "none", inside |-> FALSE]
    /\ resp = NoResp
    /\ hist = NoHist
    /\ scope = "outside"
    /\ ret = NoRet

\* GoogleSearchClient(...) as constructed by a function call.
NewSession == [conn |-> NoMgr, url |-> NoUrl, page |-> 0, lq |-> None, lk |-> NoKwargs]

\* Faulty variant: the session is closed on the normal path only.
WithClient_CloseOnSuccess(c, a, env) ==
    LET en == ClientConnect(NewSession.conn, c, env.ctor) IN
    IF en.exc # "none"
    THEN [s |-> [NewSession EXCEPT !.conn = en.mgr], outcome |-> en.exc,
          propagated |-> en.exc, results |-> <<>>, use |-> ConnUse(en.nctor, 0, env)]
    ELSE LET r == Search([NewSession EXCEPT !.conn = en.mgr], c, a, env) IN
         [s |-> IF r.outcome = "ok" THEN [r.s EXCEPT !.conn = ClientClose(r.s.conn)]
                ELSE r.s,
          outcome |-> r.outcome,
          propagated |-> IF r.outcome = "ok" THEN "none" ELSE r.outcome,
          results |-> r.resp.results,
          use |-> [r.use EXCEPT !.nctor = @ + en.nctor, !.ctor = env.ctor]]

\* with GoogleSearchClient(...) as client:
\*     response = client.search(query, ...); return response.results
\* __enter__ connects; when it raises, the block and __exit__ do not run.
\* Otherwise __exit__ closes and lets the exception of the block through.
WithClient(c, a, env) ==
    LET en == ClientConnect(NewSession.conn, c, env.ctor) IN
    IF en.exc # "none"
    THEN [s |-> [NewSession EXCEPT !.conn = en.mgr], outcome |-> en.exc,
          propagated |-> en.exc, results |-> <<>>, use |-> ConnUse(en.nctor, 0, env)]
    ELSE LET r == Search([NewSession EXCEPT !.conn = en.mgr], c, a, env) IN
         [s |-> [r.s EXCEPT !.conn = ClientClose(r.s.conn)],
          outcome |-> r.outcome,
          propagated |-> IF r.outcome = "ok" \/ ExitSuppresses THEN "none" ELSE r.outcome,
          results |-> r.resp.results,
          use |-> [r.use EXCEPT !.nctor = @ + en.nctor, !.ctor = env.ctor]]

\* One call of a module-level function.
ApiCall(op, c, a, env) ==
    LET w == WithClient(c, a, env) IN
    /\ subject = "function"
    /\ cfg' = c
    /\ conn' = w.s.conn
    /\ google_url' = w.s.url
    /\ current_page' = w.s.page
    /\ last_query' = w.s.lq
    /\ last_kwargs' = w.s.lk
    /\ call' = [op |-> op, args |-> a, outcome |-> w.outcome, msg |-> "",
                use |-> w.use, json |-> <<>>, host |-> NoHost, was |-> FALSE,
                exc |-> "none", propagated |-> w.propagated, inside |-> FALSE]
    /\ resp' = [NoResp EXCEPT !.results = w.results]
    /\ UNCHANGED <<subject, ret, hist, scope>>

api_search ==
    \E c \in Configs, a \in SearchArgs, env \in Envs :
        ApiCall("googler_api.search", c, a, env)

api_search_news ==
    \E c \in Configs, a \in NewsArgs, env \in Envs :
        ApiCall("googler_api.search_news", c, [a EXCEPT !.news = TRUE], env)

api_search_videos ==
    \E c \in Configs, a \in VideosArgs, env \in Envs :
        ApiCall("googler_api.search_videos", c, [a EXCEPT !.videos = TRUE], env)

(***************************************************************************)
(* The program: a caller uses a session, a connection manager or the       *)
(* module-level functions.                                                 *)
(***************************************************************************)
Init == InitSession \/ InitManager \/ InitFunction

Next ==
    \/ Connect
    \/ Close
    \/ search
    \/ search_news
    \/ search_videos
    \/ search_json
    \/ next_page
    \/ prev_page
    \/ ScopeEnter
    \/ ScopeExit
    \/ mgr_connect
    \/ mgr_fetch_page
    \/ mgr_reconnect
    \/ mgr_close
    \/ mgr_enter
    \/ mgr_exit
    \/ api_search
    \/ api_search_news
    \/ api_search_videos

Spec == Init /\ [][Next]_vars

(***************************************************************************)
(* Properties.                                                             *)
(***************************************************************************)
SearchOps == {"search", "search_news", "search_videos", "search_json"}
PageOps == {"next_page", "prev_page"}
PublicErrors == {"ConnectionError", "SearchError", "ParseError"}

\* C1: on a session in which search() has never been called, next_page()
\* and prev_page() fail with SearchError ("no previous search"), whatever
\* connect()/close() calls came before.
C1_NoSearchNoPaging ==
    (~hist.searchCalled /\ call.op \in PageOps)
        => (call.outcome = "SearchError" /\ call.msg = "no previous search")

\* C1 witness: next_page() was called on a connected session that never searched.
C1_Witness ==
    ~hist.searchCalled /\ call.op = "next_page" /\ conn.exists /\ is_connected(conn)

\* C2: prev_page() called while the session's page index is 0 fails with
\* SearchError, also when the start offset is not a multiple of num.
C2_PrevAtPageZeroFails ==
    [][(call'.op = "prev_page" /\ current_page = 0)
          => (call'.outcome = "SearchError" /\ current_page' = 0)]_vars

\* C2 witness: prev_page() was rejected at page 0 of a search whose start
\* offset is not a multiple of num.
C2_Witness ==
    /\ call.op = "prev_page" /\ call.msg = "first page"
    /\ current_page = 0 /\ google_url.num > 0
    /\ google_url.start % google_url.num # 0

\* C3: the stored page counter and the page of every returned response
\* are >= 0 in every reachable state.
C3_PageNonNegative == current_page >= 0 /\ (resp.exists => resp.page >= 0)

\* C3 witness: a prev_page() succeeded and brought the session back to page 0.
C3_Witness == call.op = "prev_page" /\ call.outcome = "ok" /\ current_page = 0

\* C4: after a search(query, num, start) that returns, the page index and
\* the page of the response equal start // num when num > 0 and 0 when
\* num = 0.
C4_SearchPage ==
    (call.op \in SearchOps /\ call.outcome = "ok")
        => LET expected == IF call.args.num > 0
                           THEN call.args.start \div call.args.num ELSE 0
           IN  current_page = expected /\ resp.page = expected

\* C4 witness: a search with start = 2 and num = 2 returned.
C4_Witness ==
    /\ call.op = "search" /\ call.outcome = "ok"
    /\ call.args.start = 2 /\ call.args.num = 2 /\ resp.page = 1

\* C5: a successful next_page() moves the stored URL one page (num results)
\* forward, adds exactly 1 to the page counter and returns a response whose
\* page is the previous page + 1; after a search with start = 0 that is page 1.
C5_NextPageAdvances ==
    [][(call'.op = "next_page" /\ call'.outcome = "ok")
          => /\ google_url' = [google_url EXCEPT !.start = @ + google_url.num]
             /\ current_page' = current_page + 1
             /\ resp'.page = current_page + 1
             /\ (call.op \in SearchOps /\ call.outcome = "ok" /\ call.args.start = 0)
                    => resp'.page = 1]_vars

\* C5 witness: search() with start = 0 and then next_page(), returning page 1.
C5_Witness ==
    /\ call.op = "next_page" /\ call.outcome = "ok" /\ resp.page = 1
    /\ google_url.num > 0 /\ google_url.start = google_url.num

\* C6: in a session where every earlier search() failed, next_page() and
\* prev_page() fail with SearchError ("no previous search") and do not fetch.
C6_PagingNeedsSuccessfulSearch ==
    (~hist.searchOk /\ call.op \in PageOps)
        => /\ call.outcome = "SearchError"
           /\ call.msg = "no previous search"
           /\ call.use.nfetch = 0

\* C7: a connection failure of the fetch engine surfaces as ConnectionError,
\* any other failure of the fetch step as SearchError, any failure of the
\* parser as ParseError.
C7_FailureMapping ==
    (call.op \in SearchOps \cup PageOps)
        => /\ call.use.fetch = "GoogleConnectionError" => call.outcome = "ConnectionError"
           /\ (call.use.ctor = "GoogleConnectionError" /\ call.msg # "connect")
                  => call.outcome = "ConnectionError"
           /\ call.use.fetch = "Exception" => call.outcome = "SearchError"
           /\ call.use.parse = "Exception" => call.outcome = "ParseError"

\* C7 witness: the fetch engine failed to fetch with a connection failure
\* during next_page().
C7_Witness ==
    /\ call.op = "next_page" /\ call.use.fetch = "GoogleConnectionError"
    /\ call.outcome = "ConnectionError"

C9_NoRetry ==
    (call.op \in SearchOps \cup PageOps) => (call.use.nfetch <= 1 /\ call.use.nparse <= 1)

\* C9 witness: a search whose fetch failed, after exactly one request.
C9_Witness ==
    /\ call.op = "search" /\ call.use.fetch = "GoogleConnectionError"
    /\ call.use.nfetch = 1 /\ call.use.nparse = 0

\* C10: after a with-block on the session is left, normally or by a failure
\* raised inside it, the session holds no connection manager and reports
\* disconnected.
C10_ScopeExitReleases ==
    call.op = "__exit__" => (~conn.exists /\ ~is_connected(conn))

\* C10 witness: the block was left by a failure raised inside it.
C10_Witness == call.op = "__exit__" /\ call.propagated \in PublicErrors

\* The pagination state of the session.
Pagination == <<google_url, current_page, last_query, last_kwargs>>

\* C11: connect() on a session or a connection manager that is already
\* connected returns without error, constructs no engine connection and
\* leaves the host, the connection and the pagination state as they were;
\* hence connect(); connect() leaves the state connect() left.
C11_ConnectIdempotent ==
    [][ /\ (call'.op = "connect" /\ SessionConnected(conn)) =>
             /\ call'.outcome = "ok"
             /\ call'.use.nctor = 0
             /\ conn' = conn
             /\ Pagination' = Pagination
        /\ (call'.op = "mgr.connect" /\ is_connected(conn)) =>
             /\ call'.outcome = "ok"
             /\ call'.use.nctor = 0
             /\ conn' = conn
             /\ Pagination' = Pagination ]_vars

\* connect() was called on a connected manager.
C11_Witness ==
    /\ call.op = "mgr.connect"
    /\ call.was
    /\ is_connected(conn)

\* C12: close() raises nothing in any state and leaves the session or the
\* manager disconnected; on one that is not connected it changes neither
\* the connection status, nor the host, nor the pagination state (a manager,
\* and a session without manager, are left exactly as they were); hence
\* close(); close() leaves the state close() left.
C12_CloseSafe ==
    [][ /\ call'.op = "close" =>
             /\ call'.outcome = "ok"
             /\ ~SessionConnected(conn')
             /\ Pagination' = Pagination
             /\ ~conn.exists => conn' = conn
        /\ call'.op = "mgr.close" =>
             /\ call'.outcome = "ok"
             /\ ~is_connected(conn')
             /\ conn'.host = conn.host
             /\ Pagination' = Pagination
             /\ ~is_connected(conn) => conn' = conn ]_vars

\* close() was called on a manager that was not connected.
C12_Witness ==
    /\ call.op = "mgr.close"
    /\ ~call.was
    /\ ~is_connected(conn)


\* C13: fetch_page() on a manager that is not connected first constructs
\* one engine connection to the manager's host and then fetches over it;
\* a connection failure of the construction or of the fetch surfaces as
\* ConnectionError (and a failed construction is followed by no fetch).
C13_FetchConnectsImplicitly ==
    (call.op = "mgr.fetch_page" /\ ~call.was) =>
        /\ call.use.nctor = 1
        /\ call.use.ctor = "ok" =>
             /\ is_connected(conn)
             /\ call.use.nfetch = 1
             /\ call.use.fetchHost = conn.host
        /\ call.use.ctor = "GoogleConnectionError" =>
             /\ call.outcome = "ConnectionError"
             /\ call.use.nfetch = 0
             /\ ~is_connected(conn)
        /\ call.use.fetch = "GoogleConnectionError" => call.outcome = "ConnectionError"
        /\ (call.use.ctor = "ok" /\ call.use.fetch = "ok") => call.outcome = "ok"

\* fetch_page() on a manager that was not connected connected and fetched.
C13_Witness ==
    /\ call.op = "mgr.fetch_page"
    /\ ~call.was
    /\ call.outcome = "ok"
    /\ call.use.nctor = 1
    /\ call.use.nfetch = 1

\* C14: once reconnect(newHost) has returned without error, from a connected
\* or a disconnected manager, the manager is connected and its host is
\* newHost (its host as before when no host was given).
C14_ReconnectConnects ==
    (call.op = "mgr.reconnect" /\ call.outcome = "ok") =>
        /\ is_connected(conn)
        /\ Truthy(call.host) => conn.host = call.host


\* C15: every fetch issued by search(), search_news(), search_videos(),
\* search_json(), next_page() or prev_page() goes over an engine connection
\* to the host of the resolved URL it fetches, and over a manager whose host
\* is that host.
C15_FetchOverUrlHost ==
    (call.op \in SearchOps \cup PageOps /\ call.use.nfetch > 0) =>
        /\ google_url.exists
        /\ call.use.fetchHost = google_url.host
        /\ conn.exists /\ conn.host = google_url.host

\* A page was fetched for a session of another country than the default.
C15_Witness ==
    /\ call.op \in SearchOps \cup PageOps
    /\ call.use.nfetch = 1
    /\ call.use.fetchHost = "www.google.in"
    /\ google_url.host = "www.google.in"


(***************************************************************************)
(* A session whose country is changed between two calls.  No operation of  *)
(* the client does that (C19); a caller does it by assigning the _tld      *)
(* attribute, and it is the one way a search of a connected session        *)
(* resolves to a host other than the connected one.                        *)
(***************************************************************************)
SetTld ==
    \E t \in {c.tld : c \in Configs} :
        /\ subject = "session"
        /\ t # cfg.tld
        /\ cfg' = [cfg EXCEPT !.tld = t]
        /\ call' = [op |-> "_tld", args |-> NoArgs, outcome |-> "ok", msg |-> "",
                    use |-> NoUse, json |-> <<>>, host |-> NoHost,
                    was |-> SessionConnected(conn), exc |-> "none", propagated |-> "none",
                    inside |-> scope = "inside"]
        /\ resp' = NoResp
        /\ UNCHANGED <<subject, ret, conn, google_url, current_page, last_query, last_kwargs,
                       hist, scope>>

NextRetarget ==
    \/ Connect
    \/ Close
    \/ search_news
    \/ search_json
    \/ next_page
    \/ SetTld

SpecRetarget == InitSession /\ [][NextRetarget]_vars

\* C16: a search on a connected session that resolves to a host other than
\* the connected one calls the engine's new_connection exactly once on the
\* session's manager and constructs no connection (no new manager); unless
\* that call fails, the manager is then on the resolved host.  A search on
\* a session connected to the resolved host, and so the search that follows
\* a reconnecting one, calls new_connection not at all.
C16_OneReconnect ==
    [][ (call'.op \in SearchOps /\ SessionConnected(conn)) =>
          /\ call'.use.nctor = 0
          /\ conn'.exists
          /\ google_url'.host # conn.host =>
               /\ call'.use.nnew = 1
               /\ call'.msg # "reconnect" =>
                    /\ conn'.host = google_url'.host
                    /\ call'.use.nfetch = 1
                    /\ call'.use.fetchHost = google_url'.host
          /\ google_url'.host = conn.host =>
               /\ call'.use.nnew = 0
               /\ conn'.host = conn.host
          /\ (call.op \in SearchOps /\ call.use.nnew = 1 /\ call.msg # "reconnect") =>
               call'.use.nnew = 0 ]_vars

\* A search moved the connected session from the default host to another.
C16_Witness ==
    /\ call.op \in SearchOps
    /\ call.was
    /\ call.use.nnew = 1
    /\ call.use.nctor = 0
    /\ call.outcome = "ok"
    /\ conn.host = "www.google.in"
    /\ google_url.host = "www.google.in"


\* C17: a next_page() or prev_page() that fetches while the most recent
\* search call was a successful search(q, opts) fetches the URL of q and
\* opts (keywords, result count, vertical and filters of that search), and
\* the response it returns carries q as its query.
C17_PagingFollowsLastSearch ==
    (call.op \in PageOps /\ hist.last.ok /\ call.use.nfetch > 0) =>
        /\ google_url.keywords = Split(hist.last.query)
        /\ google_url.num = hist.last.num
        /\ google_url.news = hist.last.news
        /\ google_url.videos = hist.last.videos
        /\ google_url.filter = hist.last.filter
        /\ last_query = hist.last.query
        /\ call.outcome = "ok" => resp.query = hist.last.query

\* A page of the second of two successful searches with different queries
\* was returned.
C17_Witness ==
    /\ call.op \in PageOps
    /\ call.outcome = "ok"
    /\ hist.last.ok
    /\ hist.last.query = "python tutorial"
    /\ hist.last.news
    /\ resp.query = "python tutorial"
    /\ current_page = 1


\* C18: the response a search or paging call returns comes of one fetch and
\* one parser run: it has one result per entry the parser reported, in the
\* parser's order, each with the entry's title, url and abstract ("" for a
\* missing one), the parser's flags, the URL just fetched and the page index
\* of the call.
C18_ResponseOfOneCycle ==
    (call.op \in SearchOps \cup PageOps /\ call.outcome = "ok") =>
        LET out == call.use.out IN
        /\ resp.exists
        /\ call.use.nfetch = 1
        /\ call.use.nparse = 1
        /\ Len(resp.results) = Len(out.results)
        /\ \A i \in 1..Len(out.results) :
             /\ resp.results[i].title = OrEmpty(out.results[i].title)
             /\ resp.results[i].url = OrEmpty(out.results[i].url)
             /\ resp.results[i].abstract = OrEmpty(out.results[i].abstract)
        /\ resp.autocorrected = out.autocorrected
        /\ resp.showing_results_for = out.showing_results_for
        /\ resp.filtered = out.filtered
        /\ resp.url = google_url
        /\ resp.page = current_page

\* A second page came back with the two entries of its own parser run.
C18_Witness ==
    /\ call.op = "next_page"
    /\ call.outcome = "ok"
    /\ resp.page = 1
    /\ Len(resp.results) = 2
    /\ resp.results[1].title = "t1"
    /\ resp.results[2].title = "t2"


\* C19: no operation of the session (connect, close, search, search_news,
\* search_videos, search_json, next_page, prev_page, scope enter and exit)
\* changes the session configuration.
C19_ConfigurationImmutable ==
    [][ subject = "session" => cfg' = cfg ]_vars

\* A session constructed with its own settings has searched, paged and left
\* its scope.
C19_Witness ==
    /\ subject = "session"
    /\ call.op = "__exit__"
    /\ hist.searchOk
    /\ current_page > 0
    /\ cfg.tld = "in"
    /\ cfg.timeout = 30


ApiOps == {"googler_api.search", "googler_api.search_news", "googler_api.search_videos"}

\* C20: a call of a module-level function constructs one connection for one
\* session, fetches and parses at most once, and leaves no connection open,
\* whether it returns or fails: a session that connected has been closed.
\* What it returns is the result sequence of its one search; a failure of
\* connect or of the search reaches the caller as it was raised.
C20_FunctionTearsDown ==
    (call.op \in ApiOps) =>
        /\ call.use.nctor = 1
        /\ call.use.nnew = 0
        /\ call.use.nfetch <= 1
        /\ call.use.nparse <= 1
        /\ ~SessionConnected(conn)
        /\ call.use.ctor = "ok" => ~conn.exists
        /\ call.outcome # "ok" =>
             /\ call.propagated = call.outcome
             /\ call.outcome \in PublicErrors
             /\ resp.results = <<>>
        /\ call.outcome = "ok" =>
             /\ call.propagated = "none"
             /\ call.use.nfetch = 1
             /\ Len(resp.results) = Len(call.use.out.results)

\* A function call failed in its fetch, after its session had connected.
C20_Witness ==
    /\ call.op \in ApiOps
    /\ call.use.ctor = "ok"
    /\ call.use.nfetch = 1
    /\ call.outcome = "ConnectionError"
    /\ call.propagated = "ConnectionError"
    /\ ~conn.exists


\* C21: the parser is run with the vertical flags of the resolved URL:
\* news for search_news(), video for search_videos(), and for every
\* next_page()/prev_page() the vertical of the search the session has
\* stored (that of the most recent search when it succeeded).
C21_VerticalKept ==
    (call.op \in SearchOps \cup PageOps /\ call.use.nparse > 0) =>
        /\ call.use.flags.news = google_url.news
        /\ call.use.flags.videos = google_url.videos
        /\ call.op = "search_news" => (call.use.flags.news /\ ~call.use.flags.videos)
        /\ call.op = "search_videos" => (call.use.flags.videos /\ ~call.use.flags.news)
        /\ call.op \in {"search", "search_json"} =>
             (~call.use.flags.news /\ ~call.use.flags.videos)
        /\ call.op \in PageOps =>
             /\ call.use.flags.news = last_kwargs.news
             /\ call.use.flags.videos = last_kwargs.videos
             /\ hist.last.ok =>
                  /\ call.use.flags.news = hist.last.news
                  /\ call.use.flags.videos = hist.last.videos

\* The second page of a news search was parsed as news.
C21_Witness ==
    /\ call.op = "next_page"
    /\ call.outcome = "ok"
    /\ hist.last.ok
    /\ hist.last.news
    /\ call.use.flags.news
    /\ current_page = 1


(***************************************************************************)
(* The result model on its own (models.py): a caller holds a               *)
(* SearchResponse it has built from SearchResult objects, or a parser      *)
(* entry, and applies the functions of the module to it.                   *)
(***************************************************************************)
Sitelink == [title |-> "st", url |-> "su", abstract |-> "sa"]

\* SearchResult(title, url, abstract, metadata=..., sitelinks=..., matches=...)
Results ==
    { [title |-> "t", url |-> "u", abstract |-> "a", metadata |-> md,
       sitelinks |-> sl, matches |-> mt] :
         md \in {None, "", "m"},
         sl \in {<<>>, <<Sitelink>>},
         mt \in {<<>>, <<[phrase |-> "py", offset |-> 0]>>} }

\* The result lists a response is built from.
ResultLists == UNION { [1..n -> Results] : n \in 0..MaxResults }

\* Entries the parser can hand over: each optional attribute present or
\* not, and when present empty or not.
RawEntries ==
    { [title |-> t, url |-> "u", abstract |-> "a", attrs |-> A, metadata |-> md,
       sitelinks |-> sl, matches |-> mt] :
         t \in {None, "t"},
         A \in SUBSET {"metadata", "sitelinks", "matches"},
         md \in {None, "m"},
         sl \in {<<>>, <<RawSitelinkFull, RawSitelinkBare>>},
         mt \in {<<>>, <<[phrase |-> "py", offset |-> 0]>>} }

InitModels ==
    /\ subject = "models"
    /\ cfg = CHOOSE c \in Configs : ~Truthy(c.tld)
    /\ conn = NoMgr
    /\ google_url = NoUrl
    /\ current_page = 0
    /\ last_query = None
    /\ last_kwargs = NoKwargs
    /\ call = [op |-> "import", args |-> NoArgs, outcome |-> "ok", msg |-> "",
               use |-> NoUse, json |-> <<>>, host |-> NoHost, was |-> FALSE,
               exc |-> "none", propagated |-> "none", inside |-> FALSE]
    /\ resp \in {NoResp}
                \cup { SearchResponse(rs, "python", NoUrl, NoOutput, 0) : rs \in ResultLists }
    /\ hist = NoHist
    /\ scope = "outside"
    /\ ret = NoRet

\* The record of a call of a function of models.py, on the entries given.
ModelCalled(op, entries, json) ==
    [op |-> op, args |-> NoArgs, outcome |-> "ok", msg |-> "",
     use |-> [NoUse EXCEPT !.out = [NoOutput EXCEPT !.results = entries]],
     json |-> json, host |-> NoHost, was |-> FALSE, exc |-> "none", propagated |-> "none",
     inside |-> FALSE]

ModelFrame ==
    UNCHANGED <<subject, cfg, conn, google_url, current_page, last_query, last_kwargs,
                resp, hist, scope>>

\* response.to_dicts(), the list to_json() and search_json() serialize
to_dicts_call ==
    /\ subject = "models"
    /\ resp.exists
    /\ call' = ModelCalled("to_dicts", <<>>, to_dicts(resp))
    /\ ret' = NoRet
    /\ ModelFrame

\* _result_to_search_result(entry)
convert ==
    \E e \in RawEntries :
        /\ subject = "models"
        /\ ~resp.exists
        /\ call' = ModelCalled("_result_to_search_result", <<e>>, <<>>)
        /\ ret' = [NoRet EXCEPT !.item = _result_to_search_result(e)]
        /\ ModelFrame

\* len(self.results)
__len__(response) == Len(response.results)

\* iter(self.results): the results in the order they are produced in
__iter__(response) == response.results

\* self.results[index], index counted from 0
__getitem__(response, index) == response.results[index + 1]

\* Faulty variant: the truth value every object has by default.
bool_Default(response) == TRUE

\* len(self.results) > 0
__bool__(response) == Len(response.results) > 0

len_call ==
    /\ subject = "models"
    /\ resp.exists
    /\ call' = ModelCalled("__len__", <<>>, <<>>)
    /\ ret' = [NoRet EXCEPT !.len = __len__(resp)]
    /\ ModelFrame

iter_call ==
    /\ subject = "models"
    /\ resp.exists
    /\ call' = ModelCalled("__iter__", <<>>, <<>>)
    /\ ret' = [NoRet EXCEPT !.items = __iter__(resp)]
    /\ ModelFrame

getitem_call ==
    \E index \in 0..(MaxResults - 1) :
        /\ subject = "models"
        /\ resp.exists
        /\ index < Len(resp.results)
        /\ call' = ModelCalled("__getitem__", <<>>, <<>>)
        /\ ret' = [NoRet EXCEPT !.index = index, !.item = __getitem__(resp, index)]
        /\ ModelFrame

bool_call ==
    /\ subject = "models"
    /\ resp.exists
    /\ call' = ModelCalled("__bool__", <<>>, <<>>)
    /\ ret' = [NoRet EXCEPT !.truth = __bool__(resp)]
    /\ ModelFrame

NextModels ==
    \/ to_dicts_call
    \/ convert
    \/ len_call
    \/ iter_call
    \/ getitem_call
    \/ bool_call

SpecModels == InitModels /\ [][NextModels]_vars

\* The keys of a serialized object.
Keys(obj) == DOMAIN obj

\* C22: in the serialized form of a result the keys title, url and abstract
\* are always present, and metadata, sitelinks and matches are present
\* exactly when the field is non-empty (metadata neither None nor ""); so a
\* result without optional fields has exactly the keys title, url and
\* abstract, and every serialized sitelink has exactly these three keys.
C22_OptionalKeys ==
    (call.op = "to_dicts") =>
        /\ Len(call.json) = Len(resp.results)
        /\ \A i \in 1..Len(resp.results) :
             LET r == resp.results[i]
                 obj == call.json[i]
             IN  /\ {"title", "url", "abstract"} \subseteq Keys(obj)
                 /\ Keys(obj) \subseteq
                      {"title", "url", "abstract", "metadata", "sitelinks", "matches"}
                 /\ obj["title"] = <<r.title>>
                 /\ obj["url"] = <<r.url>>
                 /\ obj["abstract"] = <<r.abstract>>
                 /\ "metadata" \in Keys(obj) <=> r.metadata \notin {None, ""}
                 /\ "sitelinks" \in Keys(obj) <=> Len(r.sitelinks) > 0
                 /\ "matches" \in Keys(obj) <=> Len(r.matches) > 0
                 /\ "sitelinks" \in Keys(obj) =>
                      /\ Len(obj["sitelinks"]) = Len(r.sitelinks)
                      /\ \A j \in 1..Len(r.sitelinks) :
                           Keys(obj["sitelinks"][j]) = {"title", "url", "abstract"}

\* A response of two results, one without optional fields and one with an
\* empty metadata text and sitelinks, was serialized.
C22_Witness ==
    /\ call.op = "to_dicts"
    /\ Len(resp.results) = 2
    /\ Keys(call.json[1]) = {"title", "url", "abstract"}
    /\ resp.results[2].metadata = ""
    /\ Keys(call.json[2]) = {"title", "url", "abstract", "sitelinks"}


\* The text of an attribute of a parser entry, "" when the entry lacks it.
AttrOrEmpty(obj, name) == IF name \in obj.attrs THEN obj[name] ELSE ""

\* C23: converting a parser entry gives a SearchResult whatever optional
\* attribute the entry lacks: metadata is None, sitelinks and matches are
\* empty lists when the attribute is missing (or empty), the values of the
\* entry otherwise; a sitelink gets "" for each of title, url and abstract
\* it lacks; a title that is None becomes "".
C23_MissingOptionalFields ==
    (call.op = "_result_to_search_result") =>
        LET e == call.use.out.results[1]
            r == ret.item
        IN  /\ r.title = (IF e.title = None THEN "" ELSE e.title)
            /\ r.url = e.url
            /\ r.abstract = e.abstract
            /\ r.metadata = (IF "metadata" \in e.attrs THEN e.metadata ELSE None)
            /\ r.matches = (IF "matches" \in e.attrs THEN e.matches ELSE <<>>)
            /\ Len(r.sitelinks) = (IF "sitelinks" \in e.attrs THEN Len(e.sitelinks) ELSE 0)
            /\ \A j \in 1..Len(r.sitelinks) :
                 /\ r.sitelinks[j].title = AttrOrEmpty(e.sitelinks[j], "title")
                 /\ r.sitelinks[j].url = AttrOrEmpty(e.sitelinks[j], "url")
                 /\ r.sitelinks[j].abstract = AttrOrEmpty(e.sitelinks[j], "abstract")

\* An entry without metadata and matches, with a sitelink that has only a
\* url, was converted.
C23_Witness ==
    /\ call.op = "_result_to_search_result"
    /\ call.use.out.results[1].attrs = {"sitelinks"}
    /\ Len(ret.item.sitelinks) = 2
    /\ ret.item.sitelinks[2].title = ""
    /\ ret.item.metadata = None
    /\ ret.item.matches = <<>>


\* C24: len(response) is the number of its results, iterating it gives the
\* results in order, response[i] is the i-th result counted from 0, and
\* bool(response) is true exactly when it has at least one result.
C24_ResponseAsSequence ==
    /\ call.op = "__len__" => ret.len = Len(resp.results)
    /\ call.op = "__iter__" =>
         /\ Len(ret.items) = Len(resp.results)
         /\ \A i \in 1..Len(resp.results) : ret.items[i] = resp.results[i]
    /\ call.op = "__getitem__" =>
         /\ ret.index \in 0..(Len(resp.results) - 1)
         /\ ret.item = resp.results[ret.index + 1]
    /\ call.op = "__bool__" => (ret.truth <=> Len(resp.results) >= 1)

\* A response without results was asked for its truth value.
C24_Witness ==
    /\ call.op = "__bool__"
    /\ resp.exists
    /\ resp.results = <<>>
    /\ ~ret.truth


\* C25: a response the session returns has a corrected-query text only if
\* it is marked autocorrected.
C25_ShowingOnlyIfCorrected ==
    (call.op \in SearchOps \cup PageOps /\ call.outcome = "ok") =>
        (~resp.autocorrected => resp.showing_results_for = None)


\* C26: after a successful search, and after every successful next_page()
\* or prev_page() that follows a successful search and starts with the page
\* counter equal to the page index of the stored URL, the page counter
\* equals the page index of the stored URL: start // num when num > 0, and
\* 0 when num = 0.
C26_PageIndexOfOffset ==
    [][ /\ (call'.op \in SearchOps /\ call'.outcome = "ok") =>
             current_page' = UrlPage(google_url')
        /\ (/\ call'.op \in PageOps
            /\ call'.outcome = "ok"
            /\ hist.last.ok
            /\ current_page = UrlPage(google_url)) =>
             current_page' = UrlPage(google_url') ]_vars


\* How a pagination call is rejected as invalid.
Rejections == {"no previous search", "first page"}

\* C27: a search, next_page() or prev_page() that finds the session
\* disconnected, and is not rejected as invalid, constructs the connection
\* and, once connected, fetches.
C27_LazyConnect ==
    (/\ call.op \in SearchOps \cup PageOps
     /\ ~call.was
     /\ call.msg \notin Rejections) =>
        /\ call.use.nctor = 1
        /\ call.use.ctor = "ok" => call.use.nfetch = 1


\* C28: leaving the scope of a session or of a connection manager closes
\* the connection, and when the scope is left by a failure raised inside
\* it (ConnectionError, SearchError or ParseError for a session) that same
\* failure goes on to the caller.
C28_ExitLetsFailureThrough ==
    (call.op \in {"__exit__", "mgr.__exit__"}) =>
        /\ ~SessionConnected(conn)
        /\ call.propagated = call.exc
        /\ call.outcome = "ok"

\* The scope of a session was left by a ParseError raised inside it.
C28_Witness ==
    /\ call.op = "__exit__"
    /\ call.exc = "ParseError"
    /\ call.propagated = "ParseError"
    /\ ~conn.exists


\* C29: next_page() and prev_page() without a stored URL, and prev_page()
\* at the first page, are rejected with SearchError; a rejected call
\* constructs no connection, fetches nothing, parses nothing and leaves
\* the connection, the page counter, the stored query and options and the
\* stored URL as they were.
C29_RejectedPagingChangesNothing ==
    [][ /\ (call'.op \in PageOps /\ ~google_url.exists) =>
             call'.msg = "no previous search"
        /\ (call'.op = "prev_page" /\ google_url.exists /\ UrlPage(google_url) = 0) =>
             call'.msg = "first page"
        /\ (call'.op \in PageOps /\ call'.msg \in Rejections) =>
             /\ call'.outcome = "SearchError"
             /\ call'.use = NoUse
             /\ conn' = conn
             /\ Pagination' = Pagination ]_vars

\* prev_page() was rejected at the first page of a connected session.
C29_Witness ==
    /\ call.op = "prev_page"
    /\ call.msg = "first page"
    /\ call.was
    /\ SessionConnected(conn)
    /\ google_url.exists
    /\ current_page = 0


\* C30: a next_page() or prev_page() that is not rejected as invalid and
\* fails with ConnectionError, SearchError or ParseError leaves the page
\* counter and the offset of the stored URL as they were before the call.
C30_FailedPagingKeepsCursor ==
    [][ (/\ call'.op \in PageOps
         /\ call'.outcome \in PublicErrors
         /\ call'.msg \notin Rejections) =>
            /\ current_page' = current_page
            /\ google_url'.start = google_url.start ]_vars


\* The stored query, options, page counter and URL belong to one search
\* request: without a stored URL nothing is stored; with one, its keywords
\* are the words of the stored query, its page size, verticals and filters
\* are the stored options, and for a positive page size the page counter is
\* the page index of its offset.
OneRequest ==
    /\ ~google_url.exists =>
          (last_query = None /\ last_kwargs = NoKwargs /\ current_page = 0)
    /\ google_url.exists =>
          /\ last_kwargs.set
          /\ google_url.keywords = Split(last_query)
          /\ google_url.num = last_kwargs.num
          /\ google_url.news = last_kwargs.news
          /\ google_url.videos = last_kwargs.videos
          /\ google_url.filter = last_kwargs.filter
          /\ (google_url.num > 0 => current_page = UrlPage(google_url))

\* A search that fails stores nothing, or stores its own query, options,
\* page index and URL.
FailedSearchStoresAllOrNothing ==
    (call'.op \in SearchOps /\ call'.outcome # "ok") =>
        \/ Pagination' = Pagination
        \/ /\ last_query' = call'.args.query
           /\ last_kwargs' = [num |-> call'.args.num, news |-> call'.args.news,
                              videos |-> call'.args.videos,
                              filter |-> call'.args.filter, set |-> TRUE]
           /\ current_page' = PageOf(call'.args.start, call'.args.num)
           /\ google_url' = build_url(call'.args.query, call'.args.num, call'.args.start,
                                      cfg, call'.args.filter, call'.args.news,
                                      call'.args.videos)

=============================================================================
